---- MODULE Spec2Model ----
(***************************************************************************)
(* Model of backend/cache.py of liuxinglu/matchlearn: the LRUCache class   *)
(* (an OrderedDict of entries with time-based expiry), the two global      *)
(* instances llm_cache and api_cache, and the two memoizing decorators     *)
(* cache_llm_result and cache_api_response.                                *)
(*                                                                         *)
(* Python values are tagged records [type, error, tag]; an Optional[int]   *)
(* is the empty sequence (None) or a one-element sequence; text is a       *)
(* sequence of one-character strings.  An OrderedDict is the sequence of   *)
(* its items in iteration order (first = least recently used).  The clock  *)
(* datetime.now() is the variable now; it does not advance inside one      *)
(* synchronous store operation.                                            *)
(***************************************************************************)
EXTENDS Integers, Sequences, FiniteSets, TLC

VARIABLES
    now,        \* datetime.now(), in seconds
    store,      \* one LRUCache instance driven directly through its methods
    op,         \* history: the last method call on store and what it met
    usage,      \* history: keys of store ordered by their last successful get or set
    script,     \* history: the (method, key) calls on store since construction, while
                \* they are sets of new keys with at most one get of the first key
    llm_cache,  \* the global instance of cache.py:120
    api_cache,  \* the global instance of cache.py:121
    calls,      \* the invocations of the decorated wrappers, idle or awaiting func
    memo,       \* history: the last step a wrapper took
    derived     \* two calls' arguments and the keys _generate_key derived for them

vars == <<now, store, op, usage, script, llm_cache, api_cache, calls, memo, derived>>

----------------------------------------------------------------------------
(* Bounds of the model *)

MaxTime == 2          \* the clock runs over 0..MaxTime
MaxSize == 2          \* an LRUCache under test is built with max_size in 1..MaxSize
MaxTtl == 0           \* explicit ttl arguments are drawn from 0..MaxTtl
MaxCalls == 2         \* wrapper invocations that can be in flight at once
MemoSize == 1         \* max_size of the two global instances (500 and 1000 in cache.py)
MaxArgs == 2          \* scalar positional arguments of a call whose key is derived

----------------------------------------------------------------------------
(* Python values *)

None == [type |-> "NoneType", error |-> FALSE, tag |-> 0]

\* a str, int, bool or None argument of a call
Str(s) == [t |-> "str", v |-> s]
PyInt(digits) == [t |-> "int", v |-> digits]
Bool(b) == [t |-> "bool", v |-> IF b THEN <<"1">> ELSE <<"0">>]
NoneArg == [t |-> "NoneType", v |-> <<>>]

\* a list argument (its elements in order) and a dict argument with str keys (its
\* <<key, value>> pairs in insertion order)
PyList(items) == [t |-> "list", items |-> items]
PyDict(pairs) == [t |-> "dict", pairs |-> pairs]

\* a result of a wrapped operation / a value handed to set
Dict(n) == [type |-> "dict", error |-> FALSE, tag |-> n]
ErrorDict(n) == [type |-> "dict", error |-> TRUE, tag |-> n]
Text(n) == [type |-> "str", error |-> FALSE, tag |-> n]
ListResult(n) == [type |-> "list", error |-> FALSE, tag |-> n]

\* truthiness of an argument value (bool(x))
Truthy(x) ==
    CASE x.t = "bool" -> x.v = <<"1">>
      [] x.t = "NoneType" -> FALSE
      [] x.t = "int" -> x.v # <<"0">>
      [] OTHER -> x.v # <<>>

----------------------------------------------------------------------------
(* Key derivation: LRUCache._generate_key *)

Alphabet == <<"0", "1", "2", ":", "F", "N", "T", "_", "a", "b", "c", "d", "e", "f",
              "g", "i", "j", "k", "l", "m", "n", "o", "p", "r", "s", "t", "u", "v", "x", "y", "z", "|">>

\* ord(c): the position of the character in code-point order
Ord(c) == CHOOSE i \in 1..Len(Alphabet) : Alphabet[i] = c

\* s < t for two texts, as Python compares str
RECURSIVE StrLess(_, _)
StrLess(s, t) ==
    IF t = <<>> THEN FALSE
    ELSE IF s = <<>> THEN TRUE
    ELSE IF Head(s) = Head(t) THEN StrLess(Tail(s), Tail(t))
    ELSE Ord(Head(s)) < Ord(Head(t))

\* str(arg) for the scalar types of line 35
PyStr(x) ==
    CASE x.t = "str" -> x.v
      [] x.t = "int" -> x.v
      [] x.t = "bool" -> IF x.v = <<"1">> THEN <<"T", "r", "u", "e">>
                         ELSE <<"F", "a", "l", "s", "e">>
      [] x.t = "NoneType" -> <<"N", "o", "n", "e">>

\* the items left in passing (insertion) order
SortedItems_unsorted(kwargs) == kwargs

\* sorted(kwargs.items()), and the sorted(dct.items()) of json.dumps with sort_keys:
\* kwargs is the sequence of <<name, value>> pairs in passing (insertion) order;
\* names are unique, so the name decides the order
RECURSIVE SortedItems(_)
SortedItems(kwargs) ==
    IF kwargs = <<>> THEN <<>>
    ELSE LET i == CHOOSE j \in 1..Len(kwargs) :
                      \A m \in 1..Len(kwargs) : m = j \/ StrLess(kwargs[j][1], kwargs[m][1])
             rest == [m \in 1..(Len(kwargs) - 1) |-> IF m < i THEN kwargs[m] ELSE kwargs[m + 1]]
         IN <<kwargs[i]>> \o SortedItems(rest)

\* sep.join(parts)
RECURSIVE JoinSep(_, _)
JoinSep(sep, parts) ==
    IF parts = <<>> THEN <<>>
    ELSE IF Len(parts) = 1 THEN parts[1]
    ELSE parts[1] \o sep \o JoinSep(sep, Tail(parts))

\* the body of a JSON string: json.dumps escapes the quote and the backslash
RECURSIVE Escape(_)
Escape(s) ==
    IF s = <<>> THEN <<>>
    ELSE (IF Head(s) \in {"\"", "\\"} THEN <<"\\", Head(s)>> ELSE <<Head(s)>>)
         \o Escape(Tail(s))

\* json.dumps(x, sort_keys=True): the default separators ", " and ": ", the keys of
\* every mapping sorted, at every depth
RECURSIVE dumps(_)
dumps(x) ==
    CASE x.t = "str" -> <<"\"">> \o Escape(x.v) \o <<"\"">>
      [] x.t = "int" -> x.v
      [] x.t = "bool" -> IF x.v = <<"1">> THEN <<"t", "r", "u", "e">>
                         ELSE <<"f", "a", "l", "s", "e">>
      [] x.t = "NoneType" -> <<"n", "u", "l", "l">>
      [] x.t = "list" ->
           <<"[">> \o JoinSep(<<",", " ">>, [i \in 1..Len(x.items) |-> dumps(x.items[i])])
                   \o <<"]">>
      [] x.t = "dict" ->
           LET items == SortedItems(x.pairs) IN
           <<"{">> \o JoinSep(<<",", " ">>,
                              [i \in 1..Len(items) |->
                                 <<"\"">> \o Escape(items[i][1]) \o <<"\"", ":", " ">>
                                          \o dumps(items[i][2])])
                   \o <<"}">>

\* one part of the key string: json.dumps for a list or a dict (lines 37-38, 45),
\* str(arg) / f"{value}" for a scalar (lines 35-36, 45)
Part(x) == IF x.t \in {"list", "dict"} THEN dumps(x) ELSE PyStr(x)

\* "|".join(parts)
RECURSIVE Join(_)
Join(parts) ==
    IF parts = <<>> THEN <<>>
    ELSE IF Len(parts) = 1 THEN parts[1]
    ELSE parts[1] \o <<"|">> \o Join(Tail(parts))

\* hashlib.md5(s).hexdigest(), taken as collision-free: the digest names its input
hexdigest(s) == [md5 |-> s]

_generate_key(args, kwargs) ==
    LET positional == [i \in 1..Len(args) |-> Part(args[i])]
        items == SortedItems(kwargs)
        named == [i \in 1..Len(items) |-> items[i][1] \o <<":">> \o Part(items[i][2])]
        key_string == Join(positional \o named)
    IN hexdigest(key_string)

----------------------------------------------------------------------------
(* The OrderedDict self.cache *)

Contains(cache, key) == \E i \in 1..Len(cache) : cache[i].key = key

GetItem(cache, key) == cache[CHOOSE i \in 1..Len(cache) : cache[i].key = key]

DelItem(cache, key) == SelectSeq(cache, LAMBDA e : e.key # key)

\* self.cache[key] = item: an existing key keeps its position, a new one goes last
SetItem(cache, key, item) ==
    IF Contains(cache, key)
    THEN [i \in 1..Len(cache) |-> IF cache[i].key = key THEN item ELSE cache[i]]
    ELSE Append(cache, item)

\* move_to_end that appends the item and leaves the old one where it was
move_to_end_copying(cache, key) == cache \o <<GetItem(cache, key)>>

move_to_end(cache, key) == DelItem(cache, key) \o <<GetItem(cache, key)>>

\* popitem() with last=True: the newest item goes
popitem_last(cache) == SubSeq(cache, 1, Len(cache) - 1)

\* popitem(last=False) removes the first item
popitem_first(cache) == Tail(cache)

Keys(cache) == {cache[i].key : i \in 1..Len(cache)}

----------------------------------------------------------------------------
(* class LRUCache; self is [cache, max_size, default_ttl], t is datetime.now() *)

LRUCache(max_size, default_ttl) ==
    [cache |-> <<>>, max_size |-> max_size, default_ttl |-> default_ttl]

\* get that returns a stored value whatever its expiry
get_ignoring_expiry(self, key, t) ==
    IF ~Contains(self.cache, key)
    THEN [self |-> self, ret |-> None]
    ELSE [self |-> [self EXCEPT !.cache = move_to_end(self.cache, key)],
          ret |-> GetItem(self.cache, key).value]

\* get that takes an entry as expired from expires_at on (<= for <)
get_expiring_early(self, key, t) ==
    IF ~Contains(self.cache, key)
    THEN [self |-> self, ret |-> None]
    ELSE LET item == GetItem(self.cache, key) IN
         IF item.expires_at <= t
         THEN [self |-> [self EXCEPT !.cache = DelItem(self.cache, key)], ret |-> None]
         ELSE [self |-> [self EXCEPT !.cache = move_to_end(self.cache, key)],
               ret |-> item.value]

\* get that leaves the recency order alone on a hit
get_without_promotion(self, key, t) ==
    IF ~Contains(self.cache, key)
    THEN [self |-> self, ret |-> None]
    ELSE LET item == GetItem(self.cache, key) IN
         IF item.expires_at < t
         THEN [self |-> [self EXCEPT !.cache = DelItem(self.cache, key)], ret |-> None]
         ELSE [self |-> self, ret |-> item.value]

\* get that, meeting its key expired, removes every expired entry
get_sweeping_expired(self, key, t) ==
    IF ~Contains(self.cache, key)
    THEN [self |-> self, ret |-> None]
    ELSE LET item == GetItem(self.cache, key) IN
         IF item.expires_at < t
         THEN [self |-> [self EXCEPT !.cache = SelectSeq(self.cache,
                                                  LAMBDA e : ~(e.expires_at < t))],
               ret |-> None]
         ELSE [self |-> [self EXCEPT !.cache = move_to_end(self.cache, key)],
               ret |-> item.value]

\* get that restarts the lifetime of the entry it hits (sliding expiration)
get_extending_lifetime(self, key, t) ==
    IF ~Contains(self.cache, key)
    THEN [self |-> self, ret |-> None]
    ELSE LET item == GetItem(self.cache, key)
             again == [item EXCEPT !.expires_at = t + (item.expires_at - item.created_at)]
         IN
         IF item.expires_at < t
         THEN [self |-> [self EXCEPT !.cache = DelItem(self.cache, key)], ret |-> None]
         ELSE [self |-> [self EXCEPT !.cache = DelItem(self.cache, key) \o <<again>>],
               ret |-> item.value]

\* get: the instance afterwards and the value returned
get(self, key, t) ==
    IF ~Contains(self.cache, key)
    THEN [self |-> self, ret |-> None]
    ELSE LET item == GetItem(self.cache, key) IN
         IF item.expires_at < t
         THEN [self |-> [self EXCEPT !.cache = DelItem(self.cache, key)], ret |-> None]
         ELSE [self |-> [self EXCEPT !.cache = move_to_end(self.cache, key)],
               ret |-> item.value]

\* set that never evicts
set_without_eviction(self, value, key, ttl, t) ==
    LET secs == IF ttl # <<>> THEN ttl[1] ELSE self.default_ttl
        item == [key |-> key, value |-> value, expires_at |-> t + secs, created_at |-> t]
    IN [self EXCEPT !.cache = move_to_end(SetItem(self.cache, key, item), key)]

\* set that makes room in a full store before it inserts, also for a stored key
set_evicting_before_insert(self, value, key, ttl, t) ==
    LET secs == IF ttl # <<>> THEN ttl[1] ELSE self.default_ttl
        item == [key |-> key, value |-> value, expires_at |-> t + secs, created_at |-> t]
        room == IF Len(self.cache) >= self.max_size
                THEN popitem_first(self.cache)
                ELSE self.cache
    IN [self EXCEPT !.cache = move_to_end(SetItem(room, key, item), key)]

\* set that leaves a stored key's entry as it is (the first writer wins)
set_keeping_first(self, value, key, ttl, t) ==
    LET secs == IF ttl # <<>> THEN ttl[1] ELSE self.default_ttl
        item == [key |-> key, value |-> value, expires_at |-> t + secs, created_at |-> t]
        added == IF Contains(self.cache, key) THEN self.cache
                 ELSE Append(self.cache, item)
    IN [self EXCEPT !.cache = IF Len(added) > self.max_size
                              THEN popitem_first(added)
                              ELSE added]

\* set that takes a falsy ttl for a missing one (ttl or self.default_ttl)
set_defaulting_zero_ttl(self, value, key, ttl, t) ==
    LET secs == IF ttl # <<>> /\ ttl[1] # 0 THEN ttl[1] ELSE self.default_ttl
        item == [key |-> key, value |-> value, expires_at |-> t + secs, created_at |-> t]
        added == move_to_end(SetItem(self.cache, key, item), key)
    IN [self EXCEPT !.cache = IF Len(added) > self.max_size
                              THEN popitem_first(added)
                              ELSE added]

\* set: the instance afterwards; ttl is <<>> for None
set(self, value, key, ttl, t) ==
    LET secs == IF ttl # <<>> THEN ttl[1] ELSE self.default_ttl
        item == [key |-> key, value |-> value, expires_at |-> t + secs, created_at |-> t]
        added == move_to_end(SetItem(self.cache, key, item), key)
    IN [self EXCEPT !.cache = IF Len(added) > self.max_size
                              THEN popitem_first(added)
                              ELSE added]

\* clear that keeps the newest entry
clear_keeping_newest(self) ==
    [self EXCEPT !.cache = IF self.cache = <<>> THEN <<>>
                           ELSE <<self.cache[Len(self.cache)]>>]

clear(self) == [self EXCEPT !.cache = <<>>]

size(self) == Len(self.cache)

\* cleanup that also removes the entries expiring right now (<= for <)
cleanup_expiring_early(self, t) ==
    [self |-> [self EXCEPT !.cache = SelectSeq(self.cache, LAMBDA item : item.expires_at > t)],
     ret |-> Len(SelectSeq(self.cache, LAMBDA item : item.expires_at <= t))]

\* cleanup: the instance afterwards and the number removed
cleanup(self, t) ==
    LET keys_to_remove == SelectSeq(self.cache, LAMBDA item : item.expires_at < t)
    IN [self |-> [self EXCEPT !.cache = SelectSeq(self.cache,
                                            LAMBDA item : ~(item.expires_at < t))],
        ret |-> Len(keys_to_remove)]

----------------------------------------------------------------------------
(* Inputs of the directly driven instance *)

\* three calls' arguments with pairwise different keys
ArgsK1 == [args |-> <<Str(<<"a">>)>>, kwargs |-> <<>>]
ArgsK2 == [args |-> <<Str(<<"b">>)>>, kwargs |-> <<>>]
ArgsK3 == [args |-> <<Str(<<"a">>), PyInt(<<"1">>)>>, kwargs |-> <<>>]
StoreArgs == {ArgsK1, ArgsK2, ArgsK3}

KeyOf(a) == _generate_key(a.args, a.kwargs)
K1 == KeyOf(ArgsK1)
K2 == KeyOf(ArgsK2)
K3 == KeyOf(ArgsK3)

StoreValues == {Dict(1), None}
TtlChoices == {<<>>} \cup {<<n>> : n \in 0..MaxTtl}

\* default_ttl of an instance under test: longer than every explicit ttl
DefaultTtl == MaxTtl + 1

----------------------------------------------------------------------------
(* History kept beside the directly driven instance *)

NoKey == hexdigest(<<>>)

\* op: the call (name, key, value, ttl) made at time, what it returned (ret, removed),
\* and the OrderedDict (pre) and the usage order (used) it met
NoCall == [name |-> "init", key |-> NoKey, value |-> None, ttl |-> <<>>, time |-> 0,
           ret |-> None, removed |-> 0, pre |-> <<>>, used |-> <<>>]

Dead == << <<"dead", NoKey>> >>

\* key is stored in cache and past its expiry at time t
Expired(cache, key, t) == Contains(cache, key) /\ GetItem(cache, key).expires_at < t

\* key is live in cache at time t: stored and not past its expiry
Live(cache, key, t) == Contains(cache, key) /\ ~Expired(cache, key, t)

\* usage after a successful get or set of key
Used(u, key) == SelectSeq(u, LAMBDA k : k # key) \o <<key>>

\* usage once only the keys of cache are left stored
Kept(u, cache) == SelectSeq(u, LAMBDA k : Contains(cache, k))

\* script after the call name(key): it goes on while the calls are sets of keys not
\* set before, with at most one get, a hit of the first key set; fresh: key was not
\* stored before a set, was live before a get
Extend(s, name, key, fresh) ==
    LET sets == \A i \in 1..Len(s) : s[i][1] = "set"
        unseen == \A i \in 1..Len(s) : s[i][2] # key
    IN IF s = Dead \/ ~fresh THEN Dead
       ELSE IF name = "set" /\ unseen THEN Append(s, <<name, key>>)
       ELSE IF name = "get" /\ sets /\ Len(s) >= 1 /\ s[1][2] = key
            THEN Append(s, <<name, key>>)
       ELSE Dead

----------------------------------------------------------------------------
(* The methods of the directly driven instance, one action each *)

Get(a) ==
    LET key == KeyOf(a)
        r == get(store, key, now)
        hit == Live(store.cache, key, now)
    IN /\ store' = r.self
       /\ op' = [NoCall EXCEPT !.name = "get", !.key = key, !.time = now, !.ret = r.ret,
                               !.pre = store.cache, !.used = usage]
       /\ usage' = Kept(IF hit THEN Used(usage, key) ELSE usage, r.self.cache)
       /\ script' = Extend(script, "get", key, hit)
       /\ UNCHANGED <<now, llm_cache, api_cache, calls, memo, derived>>

Set(value, a, ttl) ==
    LET key == KeyOf(a)
        after == set(store, value, key, ttl, now)
    IN /\ store' = after
       /\ op' = [NoCall EXCEPT !.name = "set", !.key = key, !.value = value, !.ttl = ttl,
                               !.time = now, !.pre = store.cache, !.used = usage]
       /\ usage' = Kept(Used(usage, key), after.cache)
       /\ script' = Extend(script, "set", key, ~Contains(store.cache, key))
       /\ UNCHANGED <<now, llm_cache, api_cache, calls, memo, derived>>

Clear ==
    /\ store' = clear(store)
    /\ op' = [NoCall EXCEPT !.name = "clear", !.time = now, !.pre = store.cache,
                            !.used = usage]
    /\ usage' = <<>>
    /\ script' = Dead
    /\ UNCHANGED <<now, llm_cache, api_cache, calls, memo, derived>>

Cleanup ==
    LET r == cleanup(store, now) IN
    /\ store' = r.self
    /\ op' = [NoCall EXCEPT !.name = "cleanup", !.time = now, !.removed = r.ret,
                            !.pre = store.cache, !.used = usage]
    /\ usage' = Kept(usage, r.self.cache)
    /\ script' = Dead
    /\ UNCHANGED <<now, llm_cache, api_cache, calls, memo, derived>>

\* the clock advances between calls
Tick ==
    /\ now < MaxTime
    /\ now' = now + 1
    /\ UNCHANGED <<store, op, usage, script, llm_cache, api_cache, calls, memo, derived>>

----------------------------------------------------------------------------
(* The global instances and the decorators *)

\* the configured lifetimes (llm_cache default_ttl 86400, api_cache default_ttl 300,
\* list_resumes ttl 60) scaled to the model's clock
LlmDefaultTtl == MaxTtl + 1
ApiDefaultTtl == MaxTtl + 1
ListResumesTtl == MaxTtl + 1

\* derived while no key derivation is followed
NoDerivation == [a |-> [args |-> <<>>, kwargs |-> <<>>],
                 b |-> [args |-> <<>>, kwargs |-> <<>>], ka |-> <<>>, kb |-> <<>>]

InitGlobals ==
    /\ llm_cache = LRUCache(MemoSize, LlmDefaultTtl)
    /\ api_cache = LRUCache(MemoSize, ApiDefaultTtl)
    /\ calls = [p \in 1..MaxCalls |->
                  [pc |-> "idle", func |-> "", a |-> [args |-> <<>>, kwargs |-> <<>>],
                   forced |-> FALSE, execs |-> 0, cleared |-> FALSE]]
    /\ memo = [step |-> "init", func |-> "", a |-> [args |-> <<>>, kwargs |-> <<>>],
               forced |-> FALSE, live |-> FALSE, ret |-> None, execs |-> 0, wrote |-> FALSE,
               again |-> FALSE, over |-> FALSE, on |-> ""]

ForceAnalyze == <<"f", "o", "r", "c", "e", "_", "a", "n", "a", "l", "y", "z", "e">>
TtlName == <<"t", "t", "l">>
ValueName == <<"v", "a", "l", "u", "e">>

HasKw(kwargs, name) == \E i \in 1..Len(kwargs) : kwargs[i][1] = name
Kw(kwargs, name) == kwargs[CHOOSE i \in 1..Len(kwargs) : kwargs[i][1] = name][2]

\* one name for every wrapped operation (such as the inner function's, "wrapper")
NameOf_of_wrapper(f) == <<"w", "r", "a", "p", "p", "e", "r">>

\* func.__name__ as text
NameOf(f) ==
    CASE f = "parse_resume" -> <<"p", "a", "r", "s", "e", "_", "r", "e", "s", "u", "m", "e">>
      [] f = "parse_jd" -> <<"p", "a", "r", "s", "e", "_", "j", "d">>
      [] f = "list_resumes" -> <<"l", "i", "s", "t", "_", "r", "e", "s", "u", "m", "e", "s">>
      [] f = "list_tasks" -> <<"l", "i", "s", "t", "_", "t", "a", "s", "k", "s">>
      [] OTHER -> <<"f">>

\* the value of an int argument
Digit(c) == CHOOSE n \in 0..9 : <<"0", "1", "2", "3", "4", "5", "6", "7", "8", "9">>[n + 1] = c
RECURSIVE IntOf(_)
IntOf(digits) ==
    IF digits = <<>> THEN 0
    ELSE 10 * IntOf(SubSeq(digits, 1, Len(digits) - 1)) + Digit(digits[Len(digits)])

\* How Python binds self.set(result, *args, [ttl=ttl,] **kwargs) to
\* set(self, value, *args, ttl=None, **kwargs): a keyword named ttl is set's own
\* parameter and leaves **kwargs; a second one, or one named value, is a TypeError,
\* and so is a str ttl in timedelta(seconds=ttl).
\* explicit is <<ttl>> when the call site passes ttl=, else <<>>.
BindSet(kwargs, explicit) ==
    LET own == explicit = <<>> /\ HasKw(kwargs, TtlName)
        x == Kw(kwargs, TtlName)
    IN [error |-> \/ HasKw(kwargs, ValueName)
                  \/ (explicit # <<>> /\ HasKw(kwargs, TtlName))
                  \/ (own /\ x.t = "str"),
        ttl |-> IF explicit # <<>> THEN explicit
                ELSE IF own /\ x.t \in {"int", "bool"} THEN <<IntOf(x.v)>>
                ELSE <<>>,
        kwargs |-> SelectSeq(kwargs, LAMBDA kv : kv[1] # TtlName)]

\* cache_llm_result.wrapper up to its await of func (lines 134-146): the store
\* afterwards, whether func is awaited or the call is done, and the value returned
cache_llm_result_call(cache, a, t) ==
    IF HasKw(a.kwargs, ForceAnalyze) /\ Truthy(Kw(a.kwargs, ForceAnalyze))
    THEN [cache |-> cache, pc |-> "await", forced |-> TRUE, ret |-> None]
    ELSE LET r == get(cache, _generate_key(a.args, a.kwargs), t) IN
         IF r.ret # None
         THEN [cache |-> r.self, pc |-> "done", forced |-> FALSE, ret |-> r.ret]
         ELSE [cache |-> r.self, pc |-> "await", forced |-> FALSE, ret |-> None]

\* the wrapper writing back whether or not the call was forced
cache_llm_result_return_ignoring_force(cache, a, forced, result, t) ==
    IF result.type = "dict" /\ ~result.error
    THEN [cache |-> set(cache, result, _generate_key(a.args, BindSet(a.kwargs, <<>>).kwargs),
                        <<>>, t),
          raised |-> FALSE, wrote |-> TRUE]
    ELSE [cache |-> cache, raised |-> FALSE, wrote |-> FALSE]

\* the wrapper writing back every result but a mapping with "error"
cache_llm_result_return_storing_scalars(cache, a, forced, result, t) ==
    IF forced
    THEN [cache |-> cache, raised |-> FALSE, wrote |-> FALSE]
    ELSE IF ~(result.type = "dict") \/ ~result.error
    THEN [cache |-> set(cache, result, _generate_key(a.args, BindSet(a.kwargs, <<>>).kwargs),
                        <<>>, t),
          raised |-> FALSE, wrote |-> TRUE]
    ELSE [cache |-> cache, raised |-> FALSE, wrote |-> FALSE]

\* cache_llm_result.wrapper once func has returned result (lines 137, 146-153)
cache_llm_result_return(cache, a, forced, result, t) ==
    IF forced
    THEN [cache |-> cache, raised |-> FALSE, wrote |-> FALSE]
    ELSE IF result.type = "dict" /\ ~result.error
    THEN LET b == BindSet(a.kwargs, <<>>) IN
         IF b.error
         THEN [cache |-> cache, raised |-> TRUE, wrote |-> FALSE]
         ELSE [cache |-> set(cache, result, _generate_key(a.args, b.kwargs), b.ttl, t),
               raised |-> FALSE, wrote |-> TRUE]
    ELSE [cache |-> cache, raised |-> FALSE, wrote |-> FALSE]

\* the wrapper awaiting func whatever the lookup returned
cache_api_response_call_always_executing(cache, name, a, t) ==
    [cache |-> get(cache, _generate_key(<<Str(name)>> \o a.args, a.kwargs), t).self,
     pc |-> "await", forced |-> FALSE, ret |-> None]

\* cache_api_response(ttl).decorator.wrapper up to its await of func (lines 167-175)
cache_api_response_call(cache, name, a, t) ==
    LET r == get(cache, _generate_key(<<Str(name)>> \o a.args, a.kwargs), t) IN
    IF r.ret # None
    THEN [cache |-> r.self, pc |-> "done", forced |-> FALSE, ret |-> r.ret]
    ELSE [cache |-> r.self, pc |-> "await", forced |-> FALSE, ret |-> None]

\* the wrapper with the write-back test of cache_llm_result: mappings only
cache_api_response_return_storing_mappings_only(cache, name, ttl, a, result, t) ==
    IF result.type = "dict" /\ ~result.error
    THEN [cache |-> set(cache, result,
                        _generate_key(<<Str(name)>> \o a.args, BindSet(a.kwargs, <<ttl>>).kwargs),
                        <<ttl>>, t),
          raised |-> FALSE, wrote |-> TRUE]
    ELSE [cache |-> cache, raised |-> FALSE, wrote |-> FALSE]

\* the wrapper writing back every result, a mapping with "error" too
cache_api_response_return_storing_errors(cache, name, ttl, a, result, t) ==
    [cache |-> set(cache, result,
                   _generate_key(<<Str(name)>> \o a.args, BindSet(a.kwargs, <<ttl>>).kwargs),
                   <<ttl>>, t),
     raised |-> FALSE, wrote |-> TRUE]

\* cache_api_response(ttl).decorator.wrapper once func has returned result (lines 175-182)
cache_api_response_return(cache, name, ttl, a, result, t) ==
    IF ~(result.type = "dict") \/ ~result.error
    THEN LET b == BindSet(a.kwargs, <<ttl>>) IN
         IF b.error
         THEN [cache |-> cache, raised |-> TRUE, wrote |-> FALSE]
         ELSE [cache |-> set(cache, result, _generate_key(<<Str(name)>> \o a.args, b.kwargs),
                             b.ttl, t),
               raised |-> FALSE, wrote |-> TRUE]
    ELSE [cache |-> cache, raised |-> FALSE, wrote |-> FALSE]

----------------------------------------------------------------------------
(* Inputs of the wrappers *)

ArgsForce == [args |-> <<Str(<<"a">>)>>, kwargs |-> << <<ForceAnalyze, Bool(TRUE)>> >>]
LlmArgs == {ArgsK1, ArgsForce}
ApiArgs == {ArgsK1, ArgsK2}

LlmFuncs == {"parse_resume"}
ApiFuncs == {"list_resumes"}
TtlOf(f) == ListResumesTtl

\* a second operation under @cache_api_response(ttl=60), beside list_resumes
OtherApiFuncs == {"list_tasks"}

\* the operations wrapped by cache_api_response; every other one is wrapped by
\* cache_llm_result
Qualified == ApiFuncs \cup OtherApiFuncs

\* the instance a wrapper works on
CacheOf(f) == IF f \in Qualified THEN api_cache ELSE llm_cache
NameOfCache(f) == IF f \in Qualified THEN "api_cache" ELSE "llm_cache"

Results == {Dict(1), ErrorDict(1), None}

\* the key a wrapper's lookup derives
LookupKey(f, a) ==
    IF f \in Qualified THEN _generate_key(<<Str(NameOf(f))>> \o a.args, a.kwargs)
    ELSE _generate_key(a.args, a.kwargs)

\* the key a wrapper's write-back derives
WriteKey(f, a) ==
    IF f \in Qualified
    THEN _generate_key(<<Str(NameOf(f))>> \o a.args, BindSet(a.kwargs, <<0>>).kwargs)
    ELSE _generate_key(a.args, BindSet(a.kwargs, <<>>).kwargs)

Idle == [pc |-> "idle", func |-> "", a |-> [args |-> <<>>, kwargs |-> <<>>],
         forced |-> FALSE, execs |-> 0, cleared |-> FALSE]

\* a new invocation takes the first free slot of calls (the slots are alike)
Free(p) == calls[p].pc = "idle" /\ \A q \in 1..(p - 1) : calls[q].pc # "idle"

----------------------------------------------------------------------------
(* The steps of the wrappers, one action per wrapper and await boundary *)

\* memo.again: the call comes right after a non-forced call of the same operation
\* with the same arguments returned a mapping with "error", and finds no entry
\* for its key.  memo.over: the write-back replaced a stored, unexpired entry
\* that held another value, other than None.  memo.on: the instance worked on.
Started(p, f, a, r, live) ==
    /\ calls' = [calls EXCEPT ![p] =
                    IF r.pc = "await"
                    THEN [pc |-> "await", func |-> f, a |-> a, forced |-> r.forced,
                          execs |-> 1, cleared |-> FALSE]
                    ELSE Idle]
    /\ memo' = [step |-> IF r.forced THEN "forced" ELSE IF r.pc = "done" THEN "hit" ELSE "miss",
                func |-> f, a |-> a, forced |-> r.forced, live |-> live,
                ret |-> r.ret, execs |-> IF r.pc = "await" THEN 1 ELSE 0, wrote |-> FALSE,
                again |-> /\ memo.step = "return" /\ memo.ret.type = "dict" /\ memo.ret.error
                          /\ memo.func = f /\ memo.a = a /\ ~memo.forced /\ ~r.forced
                          /\ ~Contains(CacheOf(f).cache, LookupKey(f, a)),
                over |-> FALSE, on |-> NameOfCache(f)]

LlmCall(p, f, a) ==
    LET r == cache_llm_result_call(llm_cache, a, now)
        e == llm_cache.cache
        key == LookupKey(f, a)
    IN /\ Free(p)
       /\ llm_cache' = r.cache
       /\ Started(p, f, a, r, Live(e, key, now) /\ GetItem(e, key).value # None)
       /\ UNCHANGED <<now, store, op, usage, script, api_cache, derived>>

ApiCall(p, f, a) ==
    LET r == cache_api_response_call(api_cache, NameOf(f), a, now)
        e == api_cache.cache
        key == LookupKey(f, a)
    IN /\ Free(p)
       /\ api_cache' = r.cache
       /\ Started(p, f, a, r, Live(e, key, now) /\ GetItem(e, key).value # None)
       /\ UNCHANGED <<now, store, op, usage, script, llm_cache, derived>>

Finished(p, r, result) ==
    /\ calls' = [calls EXCEPT ![p] = Idle]
    /\ memo' = [step |-> IF r.raised THEN "raise" ELSE "return", func |-> calls[p].func,
                a |-> calls[p].a, forced |-> calls[p].forced,
                live |-> FALSE, ret |-> IF r.raised THEN None ELSE result,
                execs |-> calls[p].execs, wrote |-> r.wrote, again |-> FALSE,
                over |-> LET c == CacheOf(calls[p].func).cache
                             k == WriteKey(calls[p].func, calls[p].a)
                         IN /\ r.wrote /\ Live(c, k, now)
                            /\ GetItem(c, k).value \notin {None, result},
                on |-> NameOfCache(calls[p].func)]

\* a wrapper that lets one call per key finish at a time and makes the others
\* with that key wait for it (a per-key lock taken after the lookup)
LlmReturn_waiting_for_key(p, result) ==
    LET c == calls[p]
        r == cache_llm_result_return(llm_cache, c.a, c.forced, result, now)
    IN /\ c.pc = "await" /\ c.func \notin Qualified
       /\ \A q \in 1..MaxCalls :
             (q # p /\ calls[q].pc = "await" /\ calls[q].func \notin Qualified)
               => LookupKey(calls[q].func, calls[q].a) # LookupKey(c.func, c.a)
       /\ llm_cache' = r.cache
       /\ Finished(p, r, result)
       /\ UNCHANGED <<now, store, op, usage, script, api_cache, derived>>

LlmReturn(p, result) ==
    LET c == calls[p]
        r == cache_llm_result_return(llm_cache, c.a, c.forced, result, now)
    IN /\ c.pc = "await" /\ c.func \notin Qualified
       /\ llm_cache' = r.cache
       /\ Finished(p, r, result)
       /\ UNCHANGED <<now, store, op, usage, script, api_cache, derived>>

\* the wrapper of cache_api_response working on llm_cache, as the one it was
\* copied from does
ApiReturn_on_llm_cache(p, result) ==
    LET c == calls[p]
        r == cache_api_response_return(llm_cache, NameOf(c.func), TtlOf(c.func), c.a,
                                       result, now)
    IN /\ c.pc = "await" /\ c.func \in Qualified
       /\ llm_cache' = r.cache
       /\ Finished(p, r, result)
       /\ UNCHANGED <<now, store, op, usage, script, api_cache, derived>>

ApiReturn(p, result) ==
    LET c == calls[p]
        r == cache_api_response_return(api_cache, NameOf(c.func), TtlOf(c.func), c.a,
                                       result, now)
    IN /\ c.pc = "await" /\ c.func \in Qualified
       /\ api_cache' = r.cache
       /\ Finished(p, r, result)
       /\ UNCHANGED <<now, store, op, usage, script, llm_cache, derived>>

\* a wrapper that catches the exception and caches the failure as None
Raise_caching_failure(p) ==
    LET f == calls[p].func
        after == set(CacheOf(f), None, LookupKey(f, calls[p].a), <<>>, now)
    IN /\ calls[p].pc = "await"
       /\ Finished(p, [raised |-> TRUE, wrote |-> FALSE], None)
       /\ llm_cache' = IF f \in Qualified THEN llm_cache ELSE after
       /\ api_cache' = IF f \in Qualified THEN after ELSE api_cache
       /\ UNCHANGED <<now, store, op, usage, script, derived>>

\* func raises: the exception leaves the wrapper through its await
Raise(p) ==
    /\ calls[p].pc = "await"
    /\ Finished(p, [raised |-> TRUE, wrote |-> FALSE], None)
    /\ UNCHANGED <<now, store, op, usage, script, llm_cache, api_cache, derived>>

----------------------------------------------------------------------------
(* The methods of the two global instances called directly; c names the instance *)

Instances == {"llm_cache", "api_cache"}

Instance(c) == IF c = "api_cache" THEN api_cache ELSE llm_cache

\* memo after a direct call of a method of instance c
Direct(c, name, a, ret) ==
    [step |-> name, func |-> "", a |-> a, forced |-> FALSE, live |-> FALSE, ret |-> ret,
     execs |-> 0, wrote |-> FALSE, again |-> FALSE, over |-> FALSE, on |-> c]

\* the method has changed the instance it was called on
Assigned(c, after) ==
    /\ llm_cache' = IF c = "llm_cache" THEN after ELSE llm_cache
    /\ api_cache' = IF c = "api_cache" THEN after ELSE api_cache
    /\ UNCHANGED <<now, store, op, usage, script, calls, derived>>

CacheGet(c, a) ==
    LET r == get(Instance(c), KeyOf(a), now)
    IN /\ memo' = Direct(c, "get", a, r.ret)
       /\ Assigned(c, r.self)

CacheSet(c, value, a, ttl) ==
    /\ memo' = Direct(c, "set", a, value)
    /\ Assigned(c, set(Instance(c), value, KeyOf(a), ttl, now))

\* calls[p].cleared: clear() was called on the instance of call p while p was
\* awaiting func
CacheClear(c) ==
    /\ memo' = Direct(c, "clear", [args |-> <<>>, kwargs |-> <<>>], None)
    /\ llm_cache' = IF c = "llm_cache" THEN clear(llm_cache) ELSE llm_cache
    /\ api_cache' = IF c = "api_cache" THEN clear(api_cache) ELSE api_cache
    /\ calls' = [p \in 1..MaxCalls |->
                   IF calls[p].pc = "await" /\ NameOfCache(calls[p].func) = c
                   THEN [calls[p] EXCEPT !.cleared = TRUE]
                   ELSE calls[p]]
    /\ UNCHANGED <<now, store, op, usage, script, derived>>

CacheCleanup(c) ==
    /\ memo' = Direct(c, "cleanup", [args |-> <<>>, kwargs |-> <<>>], None)
    /\ Assigned(c, cleanup(Instance(c), now).self)

----------------------------------------------------------------------------
(* Specification of one LRUCache(max_size, default_ttl) built empty *)

InitStore ==
    /\ now = 0
    /\ \E max_size \in 1..MaxSize : store = LRUCache(max_size, DefaultTtl)
    /\ op = NoCall
    /\ usage = <<>>
    /\ script = <<>>
    /\ InitGlobals
    /\ derived = NoDerivation

NextStore ==
    \/ \E a \in StoreArgs : Get(a)
    \/ \E value \in StoreValues, a \in StoreArgs, ttl \in TtlChoices : Set(value, a, ttl)
    \/ Clear
    \/ Cleanup
    \/ Tick

SpecStore == InitStore /\ [][NextStore]_vars

----------------------------------------------------------------------------
(* Properties of one LRUCache, checked under SpecStore *)

\* the step is a call of the named method of store
StepIs(name) == now' = now /\ op'.name = name

\* the keys of an OrderedDict in iteration order
KeySeq(cache) == [i \in 1..Len(cache) |-> cache[i].key]

\* the seconds a ttl argument stands for
Seconds(ttl) == IF ttl # <<>> THEN ttl[1] ELSE store.default_ttl

\* the entries of op.pre, other than op.key's, that the call removed
Gone == SelectSeq(op.pre, LAMBDA e : e.key # op.key /\ ~Contains(store.cache, e.key))

\* C1: an LRUCache built empty with max_size >= 1 never holds more than max_size
\* entries, whatever get, set, clear, cleanup calls and clock advances came before.
ThmC1 == store.max_size >= 1 => size(store) <= store.max_size

\* a set has just pushed the full store over max_size and evicted
WitC1 ==
    /\ op.name = "set" /\ ~Contains(op.pre, op.key) /\ Len(op.pre) = store.max_size
    /\ size(store) = store.max_size

\* C2: get(k) never returns the value of an entry whose expires_at is strictly
\* earlier than the current time; it reports a miss (None).
ThmC2 == (op.name = "get" /\ Expired(op.pre, op.key, op.time)) => op.ret = None

\* a get has just met its key stored with a value and past its expiry
WitC2 ==
    /\ op.name = "get" /\ Expired(op.pre, op.key, op.time)
    /\ GetItem(op.pre, op.key).value # None /\ op.ret = None

\* C3: after set(v, k, ttl=t) at time T0 with v not None, the next store call, a
\* get(k) at time T, returns v when T <= T0 + t (T = T0 + t included) and a miss
\* when T > T0 + t.  (t is default_ttl when set was given no ttl.)
ThmC3 ==
    [][(op.name = "set" /\ op.value # None /\ StepIs("get") /\ op'.key = op.key)
         => op'.ret = IF now <= op.time + Seconds(op.ttl) THEN op.value ELSE None]_vars

\* set(v, k) then, exactly at the entry's expires_at and later than the set, get(k) = v
WitC3 ==
    /\ Len(script) = 2 /\ script[1][1] = "set" /\ script[2] = <<"get", script[1][2]>>
    /\ op.name = "get" /\ op.ret # None
    /\ op.time = GetItem(store.cache, op.key).expires_at
    /\ op.time > GetItem(store.cache, op.key).created_at

\* C4: a set that makes the entry count exceed max_size removes exactly one entry,
\* the least recently used one (first in usage: its last successful get or set is
\* the oldest), live or not; and max_size + 1 sets of distinct keys on the empty
\* store, nothing in between, leave all keys but the first one set.
ThmC4 ==
    /\ (op.name = "set" /\ ~Contains(op.pre, op.key) /\ Len(op.pre) + 1 > store.max_size)
         => /\ Len(store.cache) = Len(op.pre)
            /\ Keys(store.cache) = (Keys(op.pre) \cup {op.key}) \ {op.used[1]}
            /\ op.used[1] # op.key
    /\ (/\ script # Dead
        /\ Len(script) = store.max_size + 1
        /\ \A i \in 1..Len(script) : script[i][1] = "set")
         => Keys(store.cache) = {script[i][2] : i \in 2..Len(script)}

\* a set has just evicted a live entry while an expired one stays stored
WitC4 ==
    /\ op.name = "set" /\ Len(Gone) = 1 /\ Gone[1].expires_at >= op.time
    /\ \E i \in 1..Len(store.cache) : store.cache[i].expires_at < op.time

\* C5: a get(k) that hits a live entry makes k the most recently used one and keeps
\* the order of the others; with max_size = 2, set(K1), set(K2), get(K1), set(K3)
\* on the empty store leaves exactly K1 and K3.
ThmC5 ==
    /\ (op.name = "get" /\ Live(op.pre, op.key, op.time))
         => KeySeq(store.cache)
              = SelectSeq(KeySeq(op.pre), LAMBDA k : k # op.key) \o <<op.key>>
    /\ (store.max_size = 2
        /\ script = << <<"set", K1>>, <<"set", K2>>, <<"get", K1>>, <<"set", K3>> >>)
         => KeySeq(store.cache) = <<K1, K3>>

\* the four calls have just been made on a store with max_size = 2
WitC5 ==
    /\ store.max_size = 2
    /\ script = << <<"set", K1>>, <<"set", K2>>, <<"get", K1>>, <<"set", K3>> >>

\* C6: set(v, k, ttl) on a stored key k replaces the value by v, sets created_at to
\* now and expires_at to now + ttl, makes k the most recently used entry, and
\* leaves the count and every other entry as they were (no eviction, full or not).
ThmC6 ==
    (op.name = "set" /\ Contains(op.pre, op.key))
      => LET k == op.key
             item == GetItem(store.cache, k)
         IN /\ Contains(store.cache, k)
            /\ item.value = op.value
            /\ item.created_at = op.time
            /\ item.expires_at = op.time + Seconds(op.ttl)
            /\ store.cache[Len(store.cache)].key = k
            /\ Len(store.cache) = Len(op.pre)
            /\ DelItem(store.cache, k) = DelItem(op.pre, k)

\* a set has just replaced the older of the two entries of a full store, with
\* another value and later than it was written
WitC6 ==
    /\ op.name = "set" /\ Len(op.pre) = store.max_size /\ Len(op.pre) > 1
    /\ op.pre[1].key = op.key /\ op.pre[1].value # op.value
    /\ op.pre[1].created_at < op.time

\* C7: cleanup() removes exactly the entries whose expires_at is strictly before the
\* time of the call and returns how many they were; the others stay, unchanged and
\* in their order, so the size drops by the count returned.
ThmC7 ==
    op.name = "cleanup"
      => /\ store.cache = SelectSeq(op.pre, LAMBDA e : ~(e.expires_at < op.time))
         /\ op.removed = Cardinality({i \in 1..Len(op.pre) : op.pre[i].expires_at < op.time})
         /\ size(store) = Len(op.pre) - op.removed

\* a cleanup has just removed an entry and kept one that expires right now
WitC7 ==
    /\ op.name = "cleanup" /\ op.removed >= 1
    /\ \E i \in 1..Len(store.cache) : store.cache[i].expires_at = op.time

----------------------------------------------------------------------------
(* Specification of the two decorators over the global instances *)

InitMemo ==
    /\ now = 0
    /\ store = LRUCache(MaxSize, DefaultTtl)
    /\ op = NoCall
    /\ usage = <<>>
    /\ script = <<>>
    /\ InitGlobals
    /\ derived = NoDerivation

NextMemo ==
    \/ \E p \in 1..MaxCalls, f \in LlmFuncs, a \in LlmArgs : LlmCall(p, f, a)
    \/ \E p \in 1..MaxCalls, result \in Results : LlmReturn(p, result)
    \/ \E p \in 1..MaxCalls, f \in ApiFuncs, a \in ApiArgs : ApiCall(p, f, a)
    \/ \E p \in 1..MaxCalls, result \in Results : ApiReturn(p, result)
    \/ \E p \in 1..MaxCalls : Raise(p)
    \/ Tick

SpecMemo == InitMemo /\ [][NextMemo]_vars


----------------------------------------------------------------------------
(* Properties of the decorators, checked under SpecMemo *)

\* the step is a non-forced call of a wrapper, up to its hit or its await
CallStep == now' = now /\ memo'.step \in {"hit", "miss"}

\* C8: once a non-forced call has executed func and written its result back, a
\* later call with the same arguments, made while that entry is stored and its
\* TTL has not passed, returns the same value without executing func.
CexC8 ==
    [][CallStep =>
         LET c == CacheOf(memo'.func).cache
             k == WriteKey(memo'.func, memo'.a)
         IN (Contains(c, k) /\ now <= GetItem(c, k).expires_at)
              => /\ memo'.step = "hit"
                 /\ memo'.ret = GetItem(c, k).value
                 /\ memo'.execs = 0]_vars

\* two calls are awaiting func for the same operation and key
BothExecuting(p, q) ==
    /\ p # q
    /\ calls[p].pc = "await" /\ ~calls[p].forced
    /\ calls[q].pc = "await" /\ ~calls[q].forced
    /\ calls[p].func = calls[q].func
    /\ LookupKey(calls[p].func, calls[p].a) = LookupKey(calls[q].func, calls[q].a)

\* C9 as claimed: under any interleaving of non-forced calls deriving one key, func
\* is executed at most once within a window of one TTL; stated for the window
\* that opens at time 0, in which every execution so far has started.
CexC9 == now = 0 => ~(\E p, q \in 1..MaxCalls : BothExecuting(p, q))

\* C9 as amended: a non-forced call whose lookup finds a stored, unexpired entry
\* with a value other than None returns without executing func; func runs only
\* for a call whose lookup found no such entry.
ThmC9 ==
    /\ (memo.step \in {"hit", "miss"} /\ memo.live) => (memo.step = "hit" /\ memo.execs = 0)
    /\ \A p \in 1..MaxCalls : calls[p].pc = "await" => calls[p].execs = 1

\* a call of list_resumes has just found a live entry and returned it
WitC9 == memo.step = "hit" /\ memo.live /\ memo.func \in ApiFuncs /\ memo.execs = 0

\* C10: every step of a call of a cache_llm_result wrapper with force_analyze true
\* leaves llm_cache (entries, timestamps, order) as it is, whatever func returns
\* and whatever other calls do in between; func is executed exactly once.
ThmC10 ==
    [][(now' = now /\ memo'.forced /\ memo'.func \in LlmFuncs)
         => /\ llm_cache' = llm_cache
            /\ memo'.execs = 1]_vars

\* a forced call has just returned a cacheable result and llm_cache is still empty
WitC10 ==
    /\ memo.step = "return" /\ memo.forced /\ memo.func \in LlmFuncs
    /\ memo.ret = Dict(1) /\ memo.execs = 1 /\ llm_cache.cache = <<>>

----------------------------------------------------------------------------
(* Specification of the write-back policy: both decorators, one argument    *)
(* list, every kind of result                                               *)

PolicyResults == {Dict(1), Dict(2), ErrorDict(1), Text(1), None}

NextPolicy ==
    \/ \E p \in 1..MaxCalls, f \in LlmFuncs : LlmCall(p, f, ArgsK1)
    \/ \E p \in 1..MaxCalls, result \in PolicyResults : LlmReturn(p, result)
    \/ \E p \in 1..MaxCalls, f \in ApiFuncs : ApiCall(p, f, ArgsK1)
    \/ \E p \in 1..MaxCalls, result \in PolicyResults : ApiReturn(p, result)
    \/ \E p \in 1..MaxCalls : Raise(p)
    \/ Tick

SpecPolicy == InitMemo /\ [][NextPolicy]_vars

----------------------------------------------------------------------------
(* Properties of the write-back, checked under SpecPolicy *)

\* the step is the return of a non-forced call from its wrapper
ReturnStep == now' = now /\ memo'.step = "return" /\ ~memo'.forced

\* C11: when a non-forced call of a cache_llm_result wrapper that missed returns,
\* its result is stored in llm_cache under the call's key (expiring default_ttl
\* after the write) if and only if it is a mapping without "error"; a str, a None
\* or a mapping with "error" leaves llm_cache as it is.
ThmC11 ==
    [][(ReturnStep /\ memo'.func \notin Qualified)
         => LET k == LookupKey(memo'.func, memo'.a)
                result == memo'.ret
            IN IF result.type = "dict" /\ ~result.error
               THEN /\ memo'.wrote
                    /\ Contains(llm_cache'.cache, k)
                    /\ GetItem(llm_cache'.cache, k).value = result
                    /\ GetItem(llm_cache'.cache, k).expires_at = now + llm_cache.default_ttl
               ELSE /\ ~memo'.wrote
                    /\ llm_cache' = llm_cache]_vars

\* a call has just returned a str while llm_cache holds the mapping another call
\* wrote back: the entry is still the mapping
WitC11 ==
    /\ memo.step = "return" /\ ~memo.forced /\ memo.func \in LlmFuncs
    /\ memo.ret = Text(1) /\ memo.execs = 1
    /\ Contains(llm_cache.cache, K1) /\ GetItem(llm_cache.cache, K1).value = Dict(1)

\* the OrderedDict after the step of the instance the wrapper of f works on
CacheAfter(f) == IF f \in Qualified THEN api_cache'.cache ELSE llm_cache'.cache

\* C12: with either decorator, the return of a mapping that contains "error"
\* writes nothing (both instances stay as they are, an empty one stays empty), and
\* the same non-forced call made right after it, finding no entry for its key,
\* misses and executes func again.
ThmC12 ==
    [][/\ (ReturnStep /\ memo'.ret.type = "dict" /\ memo'.ret.error)
            => /\ ~memo'.wrote
               /\ llm_cache' = llm_cache
               /\ api_cache' = api_cache
       /\ memo'.again => (memo'.step = "miss" /\ memo'.execs = 1)]_vars

\* list_resumes returned an error mapping into the empty api_cache and the same
\* call, made again, is executing func
WitC12 ==
    /\ memo.again /\ memo.func \in ApiFuncs /\ memo.execs = 1
    /\ api_cache.cache = <<>>
    /\ \E p \in 1..MaxCalls : calls[p].pc = "await" /\ calls[p].func = memo.func

\* C13: when func raises, the exception leaves the wrapper and nothing is written:
\* the raise changes neither instance; and the lookup of a call that misses
\* leaves every other entry and their order alone, writes no entry for the
\* call's key, and removes that key's entry only if it has expired.
ThmC13 ==
    [][/\ (now' = now /\ memo'.step = "raise")
            => /\ ~memo'.wrote
               /\ llm_cache' = llm_cache
               /\ api_cache' = api_cache
       /\ (now' = now /\ memo'.step = "miss")
            => LET f == memo'.func
                   k == LookupKey(f, memo'.a)
                   c == CacheOf(f).cache
                   d == CacheAfter(f)
               IN /\ DelItem(d, k) = DelItem(c, k)
                  /\ Contains(d, k) => (Contains(c, k) /\ GetItem(d, k) = GetItem(c, k))
                  /\ ~Contains(d, k) => (~Contains(c, k) \/ Expired(c, k, now))
                  /\ f \in Qualified => llm_cache' = llm_cache
                  /\ f \notin Qualified => api_cache' = api_cache]_vars

\* func has just raised in a call of parse_resume made after a full default_ttl:
\* llm_cache holds no entry for the call, api_cache still holds its own
WitC13 ==
    /\ memo.step = "raise" /\ memo.execs = 1 /\ ~memo.wrote
    /\ memo.func \in LlmFuncs /\ llm_cache.cache = <<>>
    /\ now > llm_cache.default_ttl
    /\ api_cache.cache # <<>>

\* C14: two non-forced calls with one key can both miss and both execute func
\* (WitC14 is such a run); every write-back stores the returning call's own
\* result with created_at = now and expires_at = now + ttl, so the entry left
\* after both have returned is the one of the call that wrote last.
ThmC14 ==
    [][(ReturnStep /\ memo'.wrote)
         => LET f == memo'.func
                k == WriteKey(f, memo'.a)
                d == CacheAfter(f)
                ttl == IF f \in Qualified THEN TtlOf(f) ELSE llm_cache.default_ttl
            IN /\ Contains(d, k)
               /\ GetItem(d, k).value = memo'.ret
               /\ GetItem(d, k).created_at = now
               /\ GetItem(d, k).expires_at = now + ttl
               /\ d[Len(d)].key = k]_vars

\* two calls of parse_resume missed at one time; one wrote Dict(2) back, and the
\* other, later on the clock, has just replaced that unexpired entry with Dict(1)
WitC14 ==
    /\ memo.step = "return" /\ memo.over /\ memo.func \in LlmFuncs
    /\ memo.ret = Dict(1)
    /\ GetItem(llm_cache.cache, K1).value = Dict(1)
    /\ GetItem(llm_cache.cache, K1).created_at > 0

----------------------------------------------------------------------------
(* Specification of key derivation: two calls' arguments, each key derived once *)

TextNone == <<"N", "o", "n", "e">>

\* scalar arguments, among them the text of another one's str()
KeyScalars == {Str(<<"a">>), Str(<<"b">>), Str(<<"1">>), PyInt(<<"1">>), NoneArg, Str(TextNone)}

\* one mapping in its two insertion orders, and another mapping
D1 == PyDict(<< <<<<"a">>, PyInt(<<"1">>)>>, <<<<"b">>, Str(<<"a">>)>> >>)
D2 == PyDict(<< <<<<"b">>, Str(<<"a">>)>>, <<<<"a">>, PyInt(<<"1">>)>> >>)
D3 == PyDict(<< <<<<"a">>, Str(<<"1">>)>>, <<<<"b">>, Str(<<"a">>)>> >>)

\* that mapping two levels down, inside a list inside a mapping
N1 == PyDict(<< <<<<"a">>, PyList(<<D1, NoneArg>>)>>, <<<<"b">>, Bool(TRUE)>> >>)
N2 == PyDict(<< <<<<"b">>, Bool(TRUE)>>, <<<<"a">>, PyList(<<D2, NoneArg>>)>> >>)

\* lists: element order is part of the value
L1 == PyList(<<D1, PyInt(<<"1">>)>>)
L2 == PyList(<<D2, PyInt(<<"1">>)>>)
L3 == PyList(<<PyInt(<<"1">>), D1>>)

KeyStructured == {D1, D2, D3, N1, N2, L1, L2, L3, PyList(<<Str(<<"1">>)>>)}

\* texts that contain the separators of the key string
KeyTexts == {Str(<<"a", "|", "b">>), Str(<<"x", ":", "1">>), Str(<<"x", ":", "a", "|", "y", ":", "1">>)}

\* the positional argument lists: up to MaxArgs scalars, or one structured or
\* separator-carrying argument
RECURSIVE Tuples(_, _)
Tuples(S, n) ==
    IF n = 0 THEN {<<>>}
    ELSE LET shorter == Tuples(S, n - 1)
         IN shorter \cup {Append(t, x) : t \in {u \in shorter : Len(u) = n - 1}, x \in S}

KeyArgs == Tuples(KeyScalars, MaxArgs) \cup {<<x>> : x \in KeyStructured \cup KeyTexts}

X == <<"x">>
Y == <<"y">>

\* the keyword arguments: none, x alone, or x and y in either passing order
KeyKwargs ==
    {<<>>}
      \cup {<< <<X, v>> >> : v \in {PyInt(<<"1">>), Str(<<"1">>), Str(<<"a">>), D1, D2, N1, N2}}
      \cup {<< <<X, v>>, <<Y, PyInt(<<"1">>)>> >> : v \in {Str(<<"a">>), D1}}
      \cup {<< <<Y, PyInt(<<"1">>)>>, <<X, v>> >> : v \in {Str(<<"a">>), D2}}

\* the argument sets: positional only, keyword only, or N1 / N2 with keywords
KeyInputs ==
    {[args |-> t, kwargs |-> <<>>] : t \in KeyArgs}
      \cup {[args |-> <<>>, kwargs |-> k] : k \in KeyKwargs}
      \cup {[args |-> <<n>>, kwargs |-> k] : n \in {N1, N2}, k \in KeyKwargs}

InitKey ==
    /\ now = 0
    /\ store = LRUCache(MaxSize, DefaultTtl)
    /\ op = NoCall
    /\ usage = <<>>
    /\ script = <<>>
    /\ InitGlobals
    /\ \E a, b \in KeyInputs : derived = [NoDerivation EXCEPT !.a = a, !.b = b]

\* self._generate_key(*args, **kwargs) for one of the two calls
DeriveKey(side) ==
    /\ \/ /\ side = "a" /\ derived.ka = <<>>
          /\ derived' = [derived EXCEPT
                            !.ka = <<_generate_key(derived.a.args, derived.a.kwargs)>>]
       \/ /\ side = "b" /\ derived.kb = <<>>
          /\ derived' = [derived EXCEPT
                            !.kb = <<_generate_key(derived.b.args, derived.b.kwargs)>>]
    /\ UNCHANGED <<now, store, op, usage, script, llm_cache, api_cache, calls, memo>>

NextKey == \E side \in {"a", "b"} : DeriveKey(side)

SpecKey == InitKey /\ [][NextKey]_vars

----------------------------------------------------------------------------
(* Properties of key derivation, checked under SpecKey *)

\* x and y are the same value: the same type and text for scalars, the same
\* elements in the same order for lists, the same key-value associations for
\* mappings, whatever the insertion order
RECURSIVE Same(_, _)
Same(x, y) ==
    /\ x.t = y.t
    /\ CASE x.t = "list" ->
              /\ Len(x.items) = Len(y.items)
              /\ \A i \in 1..Len(x.items) : Same(x.items[i], y.items[i])
         [] x.t = "dict" ->
              /\ Len(x.pairs) = Len(y.pairs)
              /\ \A i \in 1..Len(x.pairs) : \E j \in 1..Len(y.pairs) :
                     /\ x.pairs[i][1] = y.pairs[j][1]
                     /\ Same(x.pairs[i][2], y.pairs[j][2])
         [] OTHER -> x.v = y.v

\* two calls pass the same arguments: the same positional values in the same
\* order and the same keyword arguments, in whatever order they were passed
SameArguments(a, b) ==
    /\ Len(a.args) = Len(b.args)
    /\ \A i \in 1..Len(a.args) : Same(a.args[i], b.args[i])
    /\ Len(a.kwargs) = Len(b.kwargs)
    /\ \A i \in 1..Len(a.kwargs) : \E j \in 1..Len(b.kwargs) :
           /\ a.kwargs[i][1] = b.kwargs[j][1]
           /\ Same(a.kwargs[i][2], b.kwargs[j][2])

BothDerived == derived.ka # <<>> /\ derived.kb # <<>>

\* C15: two calls whose arguments (str, int, bool, None, lists, mappings) are the
\* same values get the same key, whatever the order in which keyword arguments
\* were passed and in which the keys of mapping arguments were inserted,
\* positional or keyword, at any depth.
ThmC15 == (BothDerived /\ SameArguments(derived.a, derived.b)) => derived.ka = derived.kb

\* the keys of f(N1, x=D1, y=1) and f(N2, y=1, x=D2) have been derived and are one
WitC15 ==
    /\ BothDerived /\ derived.ka = derived.kb
    /\ derived.a = [args |-> <<N1>>, kwargs |-> << <<X, D1>>, <<Y, PyInt(<<"1">>)>> >>]
    /\ derived.b = [args |-> <<N2>>, kwargs |-> << <<Y, PyInt(<<"1">>)>>, <<X, D2>> >>]

\* C16 as claimed: two calls whose arguments differ in a positional or a keyword
\* value get different keys (the digest taken as collision-free: different key
\* strings), as for 1 and "1", None and "None", "a|b" and "a", "b", x=1 and "x:1".
CexC16 == (BothDerived /\ ~SameArguments(derived.a, derived.b)) => derived.ka # derived.kb

----------------------------------------------------------------------------
(* Specification of name-qualified memoization: two operations under          *)
(* cache_api_response called with the same argument lists                     *)

\* a call that passes a keyword argument named ttl
ArgsTtl == [args |-> <<Str(<<"a">>)>>, kwargs |-> << <<TtlName, PyInt(<<"1">>)>> >>]

\* a call that passes a keyword argument named value
ArgsValue == [args |-> <<Str(<<"a">>)>>, kwargs |-> << <<ValueName, PyInt(<<"1">>)>> >>]

QualifiedArgs == {ArgsK1, ArgsForce, ArgsTtl, ArgsValue}

\* the argument lists each operation is called with: "a" for both
ArgsOf(f) == IF f = "list_resumes" THEN QualifiedArgs ELSE {ArgsK1}

\* what each operation can return: list_resumes a list (main.py) or None,
\* list_tasks a mapping; the two never return the same value, so a value tells
\* which operation produced it
ResultsOf(f) ==
    CASE f = "list_resumes" -> {ListResult(1), None}
      [] f = "list_tasks" -> {Dict(2)}
      [] OTHER -> {}

QualifiedResults == UNION {ResultsOf(f) : f \in Qualified}

NextApi ==
    \/ \E p \in 1..MaxCalls, f \in Qualified : \E a \in ArgsOf(f) : ApiCall(p, f, a)
    \/ \E p \in 1..MaxCalls, result \in QualifiedResults :
          /\ result \in ResultsOf(calls[p].func)
          /\ ApiReturn(p, result)
    \/ \E p \in 1..MaxCalls : Raise(p)
    \/ Tick

SpecApi == InitMemo /\ [][NextApi]_vars

----------------------------------------------------------------------------
(* Properties of name-qualified memoization, checked under SpecApi *)

\* the call carries the force flag set true
Forcing(a) == HasKw(a.kwargs, ForceAnalyze) /\ Truthy(Kw(a.kwargs, ForceAnalyze))

\* C17: under cache_api_response, operations with different names called with the
\* same arguments never share an entry: an entry of api_cache stored under the
\* key of a call of f holds a value that f returned, and a hit of a call of f
\* returns a value that f returned, never one written back for another operation.
ThmC17 ==
    /\ \A i \in 1..Len(api_cache.cache) : \A f \in Qualified : \A a \in QualifiedArgs :
          api_cache.cache[i].key = LookupKey(f, a)
            => api_cache.cache[i].value \in ResultsOf(f)
    /\ (memo.step = "hit" /\ memo.func \in Qualified) => memo.ret \in ResultsOf(memo.func)

\* list_resumes("a") has just missed while the unexpired entry that
\* list_tasks("a") wrote back is stored
WitC17 ==
    /\ memo.step = "miss" /\ memo.func = "list_resumes" /\ memo.a = ArgsK1
    /\ Live(api_cache.cache, LookupKey("list_tasks", ArgsK1), now)
    /\ GetItem(api_cache.cache, LookupKey("list_tasks", ArgsK1)).value = Dict(2)

\* C18 as claimed: a call of a cache_api_response wrapper that carries
\* force_analyze=True executes func and neither reads nor writes api_cache: no
\* step of it changes api_cache and it is never served from the cache.
CexC18 ==
    [][(now' = now /\ memo'.func \in Qualified /\ Forcing(memo'.a))
         => (api_cache' = api_cache /\ memo'.step # "hit")]_vars

\* C19 as claimed: the return of a result that is not a mapping (a list, None) from a
\* cache_api_response wrapper stores nothing: api_cache is unchanged.
CexC19 ==
    [][(ReturnStep /\ memo'.func \in Qualified /\ memo'.ret.type # "dict")
         => (api_cache' = api_cache /\ ~memo'.wrote)]_vars

\* C19 as amended: a cache_api_response wrapper that returns a result which is not
\* a mapping has stored it in api_cache under the call's key, expiring the
\* decorator's ttl after the write; only a call with a keyword argument named ttl
\* or value does not get that far: its write-back raises and leaves api_cache
\* unchanged.
ThmC19 ==
    [][/\ (ReturnStep /\ memo'.func \in Qualified /\ memo'.ret.type # "dict")
            => LET k == WriteKey(memo'.func, memo'.a) IN
               /\ memo'.wrote
               /\ ~HasKw(memo'.a.kwargs, TtlName)
               /\ ~HasKw(memo'.a.kwargs, ValueName)
               /\ Contains(api_cache'.cache, k)
               /\ GetItem(api_cache'.cache, k).value = memo'.ret
               /\ GetItem(api_cache'.cache, k).expires_at = now + TtlOf(memo'.func)
       /\ (now' = now /\ memo'.func \in Qualified /\ memo'.step = "raise")
            => api_cache' = api_cache]_vars

\* list_resumes has just returned None and the entry of its key holds None
WitC19 ==
    /\ memo.step = "return" /\ memo.func = "list_resumes" /\ memo.wrote
    /\ memo.ret = None
    /\ GetItem(api_cache.cache, WriteKey(memo.func, memo.a)).value = None

----------------------------------------------------------------------------
(* Specification of the two global instances used side by side: their methods *)
(* called directly with one argument list, and both decorators                *)

\* what the wrapped operations return, and what the direct sets store
GlobalValues == {Dict(1)}
DirectValues == {Dict(2)}

NextGlobals ==
    \/ \E c \in Instances : CacheGet(c, ArgsK1)
    \/ \E c \in Instances, value \in DirectValues : CacheSet(c, value, ArgsK1, <<>>)
    \/ \E c \in Instances : CacheClear(c)
    \/ \E c \in Instances : CacheCleanup(c)
    \/ \E p \in 1..MaxCalls, f \in LlmFuncs : LlmCall(p, f, ArgsK1)
    \/ \E p \in 1..MaxCalls, result \in GlobalValues : LlmReturn(p, result)
    \/ \E p \in 1..MaxCalls, f \in ApiFuncs : ApiCall(p, f, ArgsK1)
    \/ \E p \in 1..MaxCalls, result \in GlobalValues : ApiReturn(p, result)
    \/ \E p \in 1..MaxCalls : Raise(p)
    \/ Tick

SpecGlobals == InitMemo /\ [][NextGlobals]_vars

----------------------------------------------------------------------------
(* Properties of the two instances, checked under SpecGlobals *)

\* C20: llm_cache and api_cache are independent: a get, set, clear or cleanup
\* called on one of them, and every step of a memoized call working on one of
\* them, leaves the other one (entries, timestamps, order, size) as it is, also
\* when both hold an entry under the same key.
ThmC20 ==
    [][/\ (now' = now /\ memo'.on = "llm_cache") => api_cache' = api_cache
       /\ (now' = now /\ memo'.on = "api_cache") => llm_cache' = llm_cache]_vars

\* api_cache.set has just stored K1 while llm_cache holds K1 too, with another
\* value written at another time
WitC20 ==
    /\ memo.step = "set" /\ memo.on = "api_cache"
    /\ Contains(llm_cache.cache, K1) /\ Contains(api_cache.cache, K1)
    /\ GetItem(llm_cache.cache, K1).value # GetItem(api_cache.cache, K1).value
    /\ GetItem(llm_cache.cache, K1).created_at < GetItem(api_cache.cache, K1).created_at

----------------------------------------------------------------------------
(* Further properties of one LRUCache, checked under SpecStore *)

\* C21: clear() leaves the store with size() = 0 and changes neither max_size nor
\* default_ttl; and as long as no set is made, the store stays empty and every
\* get reports a miss (None).
ThmC21 ==
    [][/\ StepIs("clear")
            => /\ size(store') = 0
               /\ store'.max_size = store.max_size
               /\ store'.default_ttl = store.default_ttl
       /\ (size(store) = 0 /\ ~StepIs("set"))
            => /\ size(store') = 0
               /\ StepIs("get") => op'.ret = None]_vars

\* a clear has just emptied a full store of two entries, one of them expired
WitC21 ==
    /\ op.name = "clear" /\ Len(op.pre) = 2 /\ store.max_size = 2
    /\ \E i \in 1..2 : op.pre[i].expires_at < op.time
    /\ size(store) = 0 /\ store.default_ttl = DefaultTtl

\* the entries of an OrderedDict as a set
Entries(cache) == {cache[i] : i \in 1..Len(cache)}

\* C22: get(k) changes the set of stored entries in one case only, deleting k's
\* entry when it is expired: a get of a key that is not stored leaves entries and
\* order as they were, a get of an expired key removes that key's entry alone
\* (other expired entries stay, the order of the rest is kept), and a hit keeps
\* every entry.
ThmC22 ==
    op.name = "get"
      => /\ ~Contains(op.pre, op.key) => store.cache = op.pre
         /\ Expired(op.pre, op.key, op.time) => store.cache = DelItem(op.pre, op.key)
         /\ Live(op.pre, op.key, op.time) => Entries(store.cache) = Entries(op.pre)

\* a get has just removed its expired key while another expired entry stays stored
WitC22 ==
    /\ op.name = "get" /\ Expired(op.pre, op.key, op.time)
    /\ ~Contains(store.cache, op.key)
    /\ \E i \in 1..Len(store.cache) : store.cache[i].expires_at < op.time

----------------------------------------------------------------------------
(* Specification of lifetimes: set called with and without a ttl on one        *)
(* instance, and calls of a cache_api_response wrapper that are made at time 0 *)
(* and return at any time                                                      *)

TtlResults == {Dict(1), ListResult(1)}

NextTtl ==
    \/ \E value \in StoreValues, ttl \in TtlChoices : Set(value, ArgsK1, ttl)
    \/ now = 0 /\ \E p \in 1..MaxCalls, f \in ApiFuncs : ApiCall(p, f, ArgsK1)
    \/ \E p \in 1..MaxCalls, result \in TtlResults : ApiReturn(p, result)
    \/ Tick

SpecTtl == InitMemo /\ [][NextTtl]_vars

----------------------------------------------------------------------------
(* Properties of lifetimes, checked under SpecTtl *)

\* C23: set gives the new entry expires_at = time of the set + ttl for every ttl
\* passed, 0 included, and time of the set + default_ttl exactly when no ttl is
\* passed; and an entry written back by a cache_api_response wrapper expires the
\* decorator's ttl after the write-back (the calls here all start at time 0).
ThmC23 ==
    [][/\ (op' # op /\ StepIs("set"))
            => GetItem(store'.cache, op'.key).expires_at
                 = now + (IF op'.ttl = <<>> THEN store.default_ttl ELSE op'.ttl[1])
       /\ (calls' # calls /\ ReturnStep /\ memo'.func \in Qualified /\ memo'.wrote)
            => LET item == GetItem(api_cache'.cache, WriteKey(memo'.func, memo'.a))
               IN /\ item.created_at = now
                  /\ item.expires_at = now + TtlOf(memo'.func)]_vars

\* set(ttl=0) has stored an entry that expires at the time of the set, and a
\* call of list_resumes made at time 0 has just written back at a later time
WitC23 ==
    /\ op.name = "set" /\ op.ttl = <<0>>
    /\ GetItem(store.cache, op.key).expires_at = op.time
    /\ memo.step = "return" /\ memo.wrote /\ memo.func = "list_resumes" /\ now > 0
    /\ GetItem(api_cache.cache, WriteKey(memo.func, memo.a)).expires_at
         = now + ListResumesTtl

----------------------------------------------------------------------------
(* Further properties of the decorators, checked under SpecMemo *)

\* an instance holds at most max_size entries and each stored key once
WellFormed(self) ==
    /\ Len(self.cache) <= self.max_size
    /\ \A i, j \in 1..Len(self.cache) : self.cache[i].key = self.cache[j].key => i = j

\* C24: whatever the interleaving of memoized calls, which give up control only
\* at their await of func, every reachable state, those with several calls
\* suspended included, has each global instance holding at most max_size entries
\* and its order listing every stored key exactly once.
ThmC24 == WellFormed(llm_cache) /\ WellFormed(api_cache)

\* every slot holds a suspended call, the last of them has just missed, and
\* api_cache is full with the entry of another key
WitC24 ==
    /\ \A p \in 1..MaxCalls : calls[p].pc = "await"
    /\ Len(api_cache.cache) = api_cache.max_size
    /\ memo.step = "miss" /\ memo.func \in ApiFuncs
    /\ \E i \in 1..Len(api_cache.cache) :
          api_cache.cache[i].key # LookupKey(memo.func, memo.a)

----------------------------------------------------------------------------
(* Specification of progress: both decorators, one argument list, and every  *)
(* wrapped operation that was awaited completes with a result; the clock     *)
(* stands still, as no step of a wrapper waits for it                        *)

LiveResults == {Dict(1), Dict(2), ErrorDict(1)}

NextLive ==
    \/ \E p \in 1..MaxCalls, f \in LlmFuncs : LlmCall(p, f, ArgsK1)
    \/ \E p \in 1..MaxCalls, result \in LiveResults : LlmReturn(p, result)
    \/ \E p \in 1..MaxCalls, f \in ApiFuncs : ApiCall(p, f, ArgsK1)
    \/ \E p \in 1..MaxCalls, result \in LiveResults : ApiReturn(p, result)

\* the wrapped operation of slot p completes and its wrapper goes on to its end
Completes(p) ==
    \/ \E result \in LiveResults : LlmReturn(p, result)
    \/ \E result \in LiveResults : ApiReturn(p, result)

SpecLive ==
    /\ InitMemo
    /\ [][NextLive]_vars
    /\ \A p \in 1..MaxCalls : WF_vars(Completes(p))

----------------------------------------------------------------------------
(* Properties of progress, checked under SpecLive *)

\* C25: a memoized call that is awaiting its wrapped operation returns once that
\* operation completes, whatever other calls with the same or another key are in
\* flight: it waits for none of them.
ThmC25 == \A p \in 1..MaxCalls : (calls[p].pc = "await") ~> (calls[p].pc = "idle")

\* a call has just returned and written back while another call of the same
\* operation with the same arguments is still suspended
WitC25 ==
    /\ memo.step = "return" /\ memo.wrote
    /\ \E q \in 1..MaxCalls :
          /\ calls[q].pc = "await" /\ calls[q].func = memo.func /\ calls[q].a = memo.a

----------------------------------------------------------------------------
(* Specification of unqualified memoization shared by two operations:         *)
(* parse_resume and parse_jd, both under cache_llm_result, called with the    *)
(* same text                                                                  *)

SharedFuncs == {"parse_resume", "parse_jd"}

\* what each operation returns; the two never return the same value, so a value
\* tells which operation produced it
SharedResultsOf(f) == IF f = "parse_resume" THEN {Dict(1)} ELSE {Dict(2)}

NextShared ==
    \/ \E p \in 1..MaxCalls, f \in SharedFuncs : LlmCall(p, f, ArgsK1)
    \/ \E p \in 1..MaxCalls, result \in {Dict(1), Dict(2)} :
          /\ result \in SharedResultsOf(calls[p].func)
          /\ LlmReturn(p, result)
    \/ \E p \in 1..MaxCalls : Raise(p)
    \/ Tick

SpecShared == InitMemo /\ [][NextShared]_vars

----------------------------------------------------------------------------
(* Properties of shared unqualified memoization, checked under SpecShared *)

\* C26 as claimed: a value returned as a hit by an operation under
\* cache_llm_result was produced by that same operation: parse_jd(text) is never
\* served what parse_resume(text) wrote back, nor the other way round.
CexC26 ==
    (memo.step = "hit" /\ memo.func \in SharedFuncs)
      => memo.ret \in SharedResultsOf(memo.func)

----------------------------------------------------------------------------
(* Properties of an entry's lifetime, checked under SpecStore *)

\* C27: an entry that stays stored keeps its value, created_at and expires_at
\* over every call but a set of its own key, a get hit included (which changes
\* the order alone); and a get returns a value only from an entry whose
\* expires_at has not passed, however often it was read before.
ThmC27 ==
    [][/\ \A i \in 1..Len(store.cache) :
             LET e == store.cache[i] IN
             (Contains(store'.cache, e.key) /\ ~(StepIs("set") /\ op'.key = e.key))
               => GetItem(store'.cache, e.key) = e
       /\ (StepIs("get") /\ op'.ret # None)
            => /\ Contains(store.cache, op'.key)
               /\ op'.ret = GetItem(store.cache, op'.key).value
               /\ now <= GetItem(store.cache, op'.key).expires_at]_vars

\* a get, later than the set that wrote the entry, has just hit it and moved it
\* from the first place to the last, its timestamps as they were
WitC27 ==
    /\ op.name = "get" /\ op.ret # None /\ Len(op.pre) = 2 /\ op.pre[1].key = op.key
    /\ store.cache[2] = op.pre[1]
    /\ op.pre[1].created_at < op.time

\* C28 as claimed: a get that finds its key stored and unexpired returns
\* something else than the miss marker None that a get of an absent key returns,
\* whatever value set stored, None included.
CexC28 == (op.name = "get" /\ Live(op.pre, op.key, op.time)) => op.ret # None

----------------------------------------------------------------------------
(* Specification of keyword arguments that set takes for its own parameters:  *)
(* both decorators called with ttl= and value=, the wrapped operation always  *)
(* returning a cacheable result                                               *)

KwargsArgs == {ArgsK1, ArgsTtl, ArgsValue}

KwargsResults == {Dict(1)}

NextKwargs ==
    \/ \E p \in 1..MaxCalls, f \in LlmFuncs, a \in KwargsArgs : LlmCall(p, f, a)
    \/ \E p \in 1..MaxCalls, result \in KwargsResults : LlmReturn(p, result)
    \/ \E p \in 1..MaxCalls, f \in ApiFuncs, a \in KwargsArgs : ApiCall(p, f, a)
    \/ \E p \in 1..MaxCalls, result \in KwargsResults : ApiReturn(p, result)
    \/ Tick

SpecKwargs == InitMemo /\ [][NextKwargs]_vars

----------------------------------------------------------------------------
(* Properties of the write-back key, checked under SpecKwargs *)

\* C29 as claimed: a non-forced call that missed and got a cacheable result ends
\* by returning it, written back under the key its lookup used, whatever its
\* keyword arguments are called (ttl and value included): the write-back never
\* raises.
CexC29 ==
    memo.step \in {"return", "raise"}
      => /\ memo.step = "return" /\ memo.wrote
         /\ WriteKey(memo.func, memo.a) = LookupKey(memo.func, memo.a)

----------------------------------------------------------------------------
(* Specification of clear() called while memoized calls are in flight: both   *)
(* decorators, one argument list, clear on either global instance             *)

ClearResults == {Dict(1), Dict(2)}

NextClear ==
    \/ \E c \in Instances : CacheClear(c)
    \/ \E p \in 1..MaxCalls, f \in LlmFuncs : LlmCall(p, f, ArgsK1)
    \/ \E p \in 1..MaxCalls, result \in ClearResults : LlmReturn(p, result)
    \/ \E p \in 1..MaxCalls, f \in ApiFuncs : ApiCall(p, f, ArgsK1)
    \/ \E p \in 1..MaxCalls, result \in ClearResults : ApiReturn(p, result)
    \/ \E p \in 1..MaxCalls : Raise(p)
    \/ Tick

SpecClear == InitMemo /\ [][NextClear]_vars

----------------------------------------------------------------------------
(* Properties of clear() against calls in flight, checked under SpecClear *)

\* C30 as claimed: a call that missed before a clear() of its instance and was
\* still awaiting func when the clear was made stores nothing when it returns:
\* its return leaves the instance as the clear and later calls left it, so no
\* later hit is served a value whose execution started before the clear.
CexC30 ==
    [][\A p \in 1..MaxCalls :
          (calls[p].pc = "await" /\ calls[p].cleared /\ calls'[p].pc = "idle")
            => /\ llm_cache' = llm_cache
               /\ api_cache' = api_cache]_vars

====
